---- MODULE Spec2Model ----
(***************************************************************************)
(* Model of the note-taking workflow of Hi-Ben:                            *)
(*   src/src/agents/note_taker_agent.py   (NoteTakerAgent)                 *)
(*   src/src/platforms/telegram/state_manager.py (TelegramStateManager)    *)
(*   src/src/platforms/telegram/telegram_bot.py  (TelegramBot)             *)
(*   src/src/platforms/telegram/message_router.py (MessageRouter)          *)
(*                                                                         *)
(* The specifications share the variables of this module:                  *)
(*   Spec      one run of NoteTakerAgent.process, node by node;            *)
(*   ResubmitSpec  the same Message processed again, the stored project    *)
(*             list possibly changed in between;                           *)
(*   AgentSpec several runs of process in flight at once, on the state     *)
(*             they share (the agent's user_background, the state          *)
(*             manager's _status_messages);                                *)
(*   PoolSpec  the queue and the worker tasks of TelegramBot, the router's *)
(*             exception handling around a run, and stop;                  *)
(*   StallSpec the pool with capability calls that never return, under     *)
(*             weak fairness of the worker tasks;                          *)
(*   LiveSpec  the running pool whose calls all return, under the same     *)
(*             fairness;                                                   *)
(*   IntakeSpec  a run preceded by the router's conversion of the inbound  *)
(*             message and by the media processor;                         *)
(*   EditSpec  a run in which the edit of a status update can fail.        *)
(*                                                                         *)
(* Spec follows the creation of the status message, the six nodes of the   *)
(* StateGraph built by _create_workflow, the edges between them, and the   *)
(* exception handler of process.  Every node is one action; the outcome of *)
(* each capability call                                                    *)
(* the node awaits (classifier, formatter, note store, extractor, task     *)
(* store, transport) is drawn inside the action.                           *)
(*                                                                         *)
(* The graph moves from node to node along its EDGES only.  The "next"     *)
(* field a node writes into the state is an ordinary state field; no edge  *)
(* reads it.  A conditional edge registered with a path map resolves the   *)
(* routing function's return value by looking it up in that map, and a     *)
(* value that is not a key of the map is a KeyError raised out of          *)
(* app.ainvoke into the except clause of process.                          *)
(*                                                                         *)
(* A text such as str(e) is a sequence of the segments that ": "           *)
(* separates: "ServiceError: timeout" is <<"ServiceError", "timeout">>.    *)
(***************************************************************************)
EXTENDS Integers, Sequences, FiniteSets, TLC

VARIABLES
    pc,                     \* position of the run
    dida_configured,        \* user configuration: a to-do token is stored
    status_message_id,      \* AgentState.status_message_id (0 is None)
    precheck_result,        \* AgentState.precheck_result
    format_content_result,  \* AgentState.format_content_result
    tasks,                  \* AgentState.tasks
    save_success,           \* AgentState.save_success
    error_message,          \* AgentState.error_message (<<>> is None)
    next,                   \* AgentState.next
    results,                \* the local list "results" of _create_tasks
    entered,                \* nodes entered so far, in order
    calls,                  \* capability calls made so far, in order
    updates,                \* status updates issued on the status message
    exc,                    \* exception on its way to the except of process
    message_queue,          \* TelegramBot.message_queue
    submitted,              \* inbound messages handed to _handle_message
    workers,                \* TelegramBot._workers: what each task is doing
    runs,                   \* per inbound message: its run and what it saw
    user_background,        \* NoteTakerAgent.user_background (0 is "")
    status_messages,        \* TelegramStateManager._status_messages
    next_message_id,        \* per chat: the id the transport gives next
    stopped,                \* TelegramBot.stop has returned
    dequeued,               \* messages taken from the queue, in order
    edits,                  \* status edits issued, with the message they hit
    replies,                \* replies the router sent to inbound messages
    submission,             \* how often the Message was handed to process
    earlier,                \* what the earlier runs of the Message left
    dida_projects,          \* user configuration "dida.projects", as stored
    update,                 \* the inbound telegram message (update.message)
    message,                \* the Message _convert_to_message built (0: none)
    media_text,             \* text_content of _process_message (router)
    failed_edit,            \* the status update whose edit failed (0: none)
    unfinished_tasks,       \* message_queue._unfinished_tasks (asyncio.Queue)
    task_done               \* per item: the task_done calls made for it;
                            \* item 0 stands for "no item was dequeued"

run_vars == <<pc, dida_configured, status_message_id, precheck_result,
              format_content_result, tasks, save_success, error_message, next,
              results, entered, calls, updates, exc>>

pool_vars == <<message_queue, submitted, workers, runs, user_background,
               status_messages, next_message_id, stopped, dequeued, edits,
               replies>>

user_vars == <<submission, earlier, dida_projects>>

intake_vars == <<update, message, media_text>>

transport_vars == <<failed_edit>>

queue_vars == <<unfinished_tasks, task_done>>

vars == <<run_vars, pool_vars, user_vars, intake_vars, transport_vars,
          queue_vars>>

----------------------------------------------------------------------------
(* Bounds *)

MaxTasks == 3
MaxWorkers == 2
MaxMessages == 3
MaxRuns == 2
MaxSubmissions == 2
MaxLiveMessages == 2

----------------------------------------------------------------------------
(* Values *)

START == "__start__"
END == "__end__"
None == 0
NoProgress == -1
StatusMessageHandle == 1

\* str(e) of the failures the collaborators raise: plain and wrapped
ErrorMessages == { <<"timeout">>, <<"ServiceError", "timeout">> }

\* the project lists a user has stored at one time or another
ProjectLists ==
    { << [name |-> "Shopping", id |-> "p-shopping"] >>,
      << [name |-> "Ghost", id |-> "p-ghost"] >> }
FirstProjects == << [name |-> "Shopping", id |-> "p-shopping"] >>

\* a list read once and kept by the agent
projects_config_cached == FirstProjects

\* projects_config = self.config.get_user_value(user_id, "dida.projects",
\* default=[]): get_user_value loads the user's file on every call
projects_config == dida_projects

\* nothing was processed before
NoEarlier == [note |-> FALSE, task |-> FALSE]
FirstSubmission ==
    /\ submission = 1
    /\ earlier = NoEarlier
    /\ dida_projects = FirstProjects

\* the inbound messages followed: typed text, or a voice or audio
\* recording, whose "text" attribute is None (here "")
TypedTexts == {"buy milk"}
Transcripts == {"buy milk", "call Ann at six"}
Inbound ==
    [kind : {"TEXT"}, text : TypedTexts] \cup [kind : {"VOICE", "AUDIO"}, text : {""}]

\* _convert_to_message: content.data holds "text" for a TEXT message and
\* the file of the recording for VOICE and AUDIO (lines 220-260)
convert_to_message(tg_message) ==
    [type |-> tg_message.kind,
     data |-> IF tg_message.kind = "TEXT"
              THEN [text |-> tg_message.text]
              ELSE [file_path |-> "recording"]]

\* text_content=message.content.data.get("text", "") (process, line 861)
TextContent(msg) == IF "text" \in DOMAIN msg.data THEN msg.data.text ELSE ""

\* a typed message, converted, about to be handed to process
TextReceived ==
    /\ update = [kind |-> "TEXT", text |-> "buy milk"]
    /\ message = convert_to_message(update)
    /\ media_text = ""

\* the due dates datetime.fromisoformat accepts; "" is no due date and any
\* other text is one it rejects
WellFormedDates == { "2024-11-23T18:00:00+08:00" }

\* the extracted tasks the runs are tried on (title is set by position)
TaskShapes ==
    { [projectId |-> "",         dueDate |-> "",                          priority |-> 0, content |-> ""],
      [projectId |-> "Shopping", dueDate |-> "2024-11-23T18:00:00+08:00", priority |-> 5, content |-> "milk"],
      [projectId |-> "Ghost",    dueDate |-> "",                          priority |-> 1, content |-> ""],
      [projectId |-> "",         dueDate |-> "tomorrow evening",          priority |-> 3, content |-> ""] }

Titled(shapes) ==
    [ i \in DOMAIN shapes |->
        [title |-> i, projectId |-> shapes[i].projectId,
         dueDate |-> shapes[i].dueDate, priority |-> shapes[i].priority,
         content |-> shapes[i].content] ]

TaskLists ==
    UNION { { Titled(s) : s \in [1..n -> TaskShapes] } : n \in 0..MaxTasks }

PrecheckResults == [contains_url : BOOLEAN, contains_text : BOOLEAN]

EmptyFormat == [nonempty |-> FALSE, content_type |-> "", title |-> "", tags |-> <<>>]
FormatResults ==
    { [nonempty |-> TRUE, content_type |-> "Note", title |-> "Buy milk", tags |-> <<"shopping">>],
      [nonempty |-> TRUE, content_type |-> "Note", title |-> "", tags |-> <<>>],
      EmptyFormat }

----------------------------------------------------------------------------
(* Status updates *)

Description(text, err, lines) == [text |-> text, err |-> err, lines |-> lines]

\* _update_status with a status_message_id: the text is rendered by
\* format_status_text(progress if show_progress else None, ...), which draws
\* the bar iff that argument is not None
StatusUpdate(status, step, progress, description, emoji, show_progress) ==
    [status |-> status, step |-> step, progress |-> progress,
     description |-> description, emoji |-> emoji,
     show_progress |-> show_progress,
     bar |-> (show_progress /\ progress # NoProgress)]

\* a progress update that reports the share still to do
ProgressCountdown(step, progress, text, emoji) ==
    StatusUpdate("PROCESSING", step, 100 - progress,
                 Description(text, <<>>, <<>>), emoji, TRUE)

Progress(step, progress, text, emoji) ==
    StatusUpdate("PROCESSING", step, progress, Description(text, <<>>, <<>>),
                 emoji, TRUE)

Failure(step, err) ==
    StatusUpdate("FAILED", step, 0, Description("error", err, <<>>), "", FALSE)

\* a call that hands the progress to the renderer whatever show_progress is
ProgressArgAlways(progress, show_progress) == progress

\* "progress=progress if show_progress else None" (line 794)
ProgressArg(progress, show_progress) ==
    IF show_progress THEN progress ELSE NoProgress

\* format_status_text (state_manager.py 227-254).  The text is its first
\* part, f"{emoji} {description}" or the description alone, and below it
\* the bar line when progress is not None: int(progress * bar_length)
\* filled cells, the rest of the bar_length cells empty, and the percentage
bar_length == 10
format_status_text(progress, step, description, emoji) ==
    [first |-> IF emoji # "" THEN << emoji, description >> ELSE << description >>,
     bar |-> IF progress # NoProgress
             THEN << [filled |-> (progress * bar_length) \div 100,
                      empty |-> bar_length - ((progress * bar_length) \div 100),
                      percent |-> progress] >>
             ELSE <<>>]

\* the text _update_status sends for the update u (lines 792-798)
status_text(u) ==
    format_status_text(ProgressArg(u.progress, u.show_progress), u.step,
                       u.description, u.emoji)

\* a node that calls _update_status without looking at status_message_id
EmitUnguarded(upds, sid, u) == Append(upds, u)

\* "if self.telegram_status_updater and status_message_id: await
\* self._update_status(...)"; the updater is the router's state manager
Emit(upds, sid, u) == IF sid # None THEN Append(upds, u) ELSE upds

\* error_msg.split(": ")[-1] when ": " is in error_msg
Innermost(msg) == IF Len(msg) > 1 THEN << msg[Len(msg)] >> ELSE msg

----------------------------------------------------------------------------
(* Capability calls *)

Call(op, item, project_id, outcome) ==
    [op |-> op, item |-> item, project_id |-> project_id, outcome |-> outcome]

----------------------------------------------------------------------------
(* Edges of the StateGraph *)

\* a path map that sends a message without URL straight to save_notion
PrecheckEndsSkipFormat ==
    [ n \in {"url_summary", "format_content"} |->
        IF n = "format_content" THEN "save_notion" ELSE n ]

\* path map of add_conditional_edges("precheck", ...)
PrecheckEnds == [ n \in {"url_summary", "format_content"} |-> n ]

\* a path map that also declares END, sending it on to create_tasks
SaveEndsReportAlways ==
    [ n \in {"extract_tasks", "create_tasks", END} |->
        IF n = END THEN "create_tasks" ELSE n ]

\* path map of add_conditional_edges("save_notion", ...)
SaveEnds == [ n \in {"extract_tasks", "create_tasks"} |-> n ]

RouteAfterUrlCheck(pr) ==
    IF pr.contains_url THEN "url_summary" ELSE "format_content"

\* the route without the contains_text test
RouteAfterSaveIgnoringText(pr, ss) ==
    IF ss THEN "extract_tasks" ELSE END

RouteAfterSave(pr, ss) ==
    IF pr.contains_text /\ ss THEN "extract_tasks" ELSE END

\* Branch: ends[result]; a result that is no key of the map is a KeyError
Resolves(ends, r) == r \in DOMAIN ends
KeyErrorText(r) == << r >>

----------------------------------------------------------------------------
(* _create_tasks: the per-task loop and the final report *)

\* project_map = {p["name"]: p["id"] for p in projects_config}
project_map ==
    [ n \in { projects_config[k].name : k \in DOMAIN projects_config } |->
        (CHOOSE k \in DOMAIN projects_config : projects_config[k].name = n) ]

\* a lookup that hands back the name it was asked for
ProjectMapGetName(project_name) ==
    IF project_name \in DOMAIN project_map THEN project_name ELSE ""

\* project_map.get(project_name): the id, or None (here "")
ProjectMapGet(project_name) ==
    IF project_name \in DOMAIN project_map
    THEN projects_config[project_map[project_name]].id
    ELSE ""

\* datetime.fromisoformat(s.replace('Z', '+00:00')) returns (TRUE) or
\* raises ValueError (FALSE)
IsoParses(s) == s \in WellFormedDates
IsoformatError(s) == << "Invalid isoformat string", s >>

Line(kind, item) == [kind |-> kind, item |-> item]

CreateOutcomes == {"ok", "null", "raise"}

\* the pass without the "not project_id and project_name" test
CreateItemUnchecked(task, outcome) ==
    IF task.dueDate # "" /\ ~IsoParses(task.dueDate)
    THEN [results |-> << Line("create_failed", task.title) >>, calls |-> <<>>]
    ELSE [results |-> << Line("created", task.title) >>,
          calls |-> << Call("TaskStore.create", task.title,
                            ProjectMapGet(task.projectId), outcome) >>]

\* one pass of "for task in tasks": what it appends to results and which
\* TaskStore.create call it makes; outcome is what add_task does if called
CreateItem(task, outcome) ==
    LET project_name == task.projectId
        project_id == ProjectMapGet(project_name)
    IN IF project_id = "" /\ project_name # ""
       THEN [results |-> << Line("project_not_found", task.title) >>, calls |-> <<>>]
       ELSE IF task.dueDate # "" /\ ~IsoParses(task.dueDate)
       THEN [results |-> << Line("create_failed", task.title) >>, calls |-> <<>>]
       ELSE LET c == Call("TaskStore.create", task.title, project_id, outcome)
            IN IF outcome = "ok"
               THEN [results |-> << Line("created", task.title) >>, calls |-> << c >>]
               ELSE IF outcome = "raise"
               THEN [results |-> << Line("create_failed", task.title) >>, calls |-> << c >>]
               ELSE [results |-> <<>>, calls |-> << c >>]

\* add_task has an outcome only for the items it is called for: oc names
\* one ("ok" stands in) for the items the pass skips
Drawn(ts, oc) ==
    \A i \in DOMAIN ts : CreateItem(ts[i], "ok").calls = <<>> => oc[i] = "ok"

\* the loop with the try around the whole loop: the first failure ends it
RECURSIVE CreateLoopTryOutside(_, _, _, _, _)
CreateLoopTryOutside(ts, oc, i, res, cl) ==
    IF i > Len(ts)
    THEN [results |-> res, calls |-> cl]
    ELSE LET step == CreateItem(ts[i], oc[i])
         IN IF \E k \in DOMAIN step.results : step.results[k].kind = "create_failed"
            THEN [results |-> res \o step.results, calls |-> cl \o step.calls]
            ELSE CreateLoopTryOutside(ts, oc, i + 1, res \o step.results,
                                      cl \o step.calls)

RECURSIVE CreateLoop(_, _, _, _, _)
CreateLoop(ts, oc, i, res, cl) ==
    IF i > Len(ts)
    THEN [results |-> res, calls |-> cl]
    ELSE LET step == CreateItem(ts[i], oc[i])
         IN CreateLoop(ts, oc, i + 1, res \o step.results, cl \o step.calls)

\* the note section of the report (lines 638-672)
NoteLines(ss, fmt) ==
    IF ss
    THEN << Line("note_header", 0), Line("note_saved", 0) >>
         \o (IF fmt.title # "" THEN << Line("note_title", 0) >> ELSE <<>>)
         \o << Line("note_category", 0) >>
         \o (IF fmt.tags # <<>> THEN << Line("note_tags", 0) >>
                                ELSE << Line("note_no_tags", 0) >>)
    ELSE <<>>

\* the entry of task i in the report (lines 679-725)
TaskEntry(ts, i) ==
    << Line("task_title", i) >>
    \o (IF ts[i].projectId # "" THEN << Line("task_project", i) >> ELSE <<>>)
    \o (IF ts[i].dueDate # "" THEN << Line("task_due", i) >> ELSE <<>>)
    \o (IF ts[i].priority > 0 THEN << Line("task_priority", i) >> ELSE <<>>)
    \o (IF ts[i].content # "" THEN << Line("task_content", i) >> ELSE <<>>)
    \o (IF i # Len(ts) THEN << Line("task_separator", i) >> ELSE <<>>)

RECURSIVE TaskEntries(_, _)
TaskEntries(ts, i) ==
    IF i > Len(ts) THEN <<>> ELSE TaskEntry(ts, i) \o TaskEntries(ts, i + 1)

\* a report whose task section is written whatever the list holds
TaskLinesAlways(ts) ==
    << Line("blank", 0), Line("task_header", Len(ts)) >> \o TaskEntries(ts, 1)

\* the task section of the report (lines 674-729): built from tasks
TaskLines(ts) ==
    IF ts # <<>>
    THEN << Line("blank", 0), Line("task_header", Len(ts)) >> \o TaskEntries(ts, 1)
    ELSE << Line("blank", 0), Line("no_tasks", 0) >>

\* report_lines (lines 632-733)
ReportLines(ss, fmt, ts) ==
    << Line("done_title", 0), Line("blank", 0) >>
    \o NoteLines(ss, fmt) \o TaskLines(ts)
    \o << Line("blank", 0), Line("footer", 0) >>

\* the report builder parses every due date again (line 698), outside the
\* per-task try
ReportRaises(ts) == \E i \in DOMAIN ts : ts[i].dueDate # "" /\ ~IsoParses(ts[i].dueDate)
FirstBadDate(ts) ==
    ts[CHOOSE i \in DOMAIN ts :
          /\ ts[i].dueDate # "" /\ ~IsoParses(ts[i].dueDate)
          /\ \A j \in 1..(i - 1) : ts[j].dueDate = "" \/ IsoParses(ts[j].dueDate)].dueDate

Completed(lines) ==
    StatusUpdate("COMPLETED", "COMPLETED", NoProgress,
                 Description("report", <<>>, lines), "", FALSE)

----------------------------------------------------------------------------
(* The worker pool of TelegramBot: values *)

\* self.max_workers; 10 in the source, MaxWorkers in the checked instances
max_workers == MaxWorkers
Workers == 1..max_workers

\* inbound messages are numbered in the order _handle_message receives them
Messages == 1..MaxMessages

\* the item a worker holds: what get returned to it, 0 while it waits in get
Items == 0..MaxMessages
Users == {1, 2}
Chats == {1, 2}
\* message.metadata.user_id and message.metadata.chat_id
UserOf(m) == ((m - 1) % 2) + 1
ChatOf(m) == UserOf(m)

\* _get_user_background(user_id): the stored profile, projects and tags of
\* that user; different users have different backgrounds
Background(u) == u

\* a worker task: waiting in message_queue.get ("get"), inside
\* _process_message ("busy"), ended by cancellation ("cancelled") or by an
\* exception that left the loop ("dead")
Worker(state, msg) == [state |-> state, msg |-> msg]

\* a message not yet received
NewRun ==
    [pc |-> "new", worker |-> 0, status_message_id |-> None, pending |-> None,
     sends |-> 0, format_background |-> None, extract_background |-> None,
     raised |-> FALSE, escaped |-> FALSE]

\* the pool before any message arrives, after TelegramBot.start
PoolStarted ==
    /\ message_queue = <<>>
    /\ submitted = 0
    /\ workers = [w \in Workers |-> Worker("get", 0)]
    /\ runs = [m \in Messages |-> NewRun]
    /\ user_background = None
    /\ status_messages = {}
    /\ stopped = FALSE
    /\ dequeued = <<>>
    /\ unfinished_tasks = 0
    /\ task_done = [i \in Items |-> 0]
    /\ edits = {}
    /\ replies = {}

----------------------------------------------------------------------------
Init ==
    /\ pc = "start"
    /\ dida_configured \in BOOLEAN
    /\ status_message_id = None
    /\ precheck_result = [contains_url |-> FALSE, contains_text |-> FALSE]
    /\ format_content_result = EmptyFormat
    /\ tasks = <<>>
    /\ save_success = FALSE
    /\ error_message = <<>>
    /\ next = START
    /\ results = <<>>
    /\ entered = <<>>
    /\ calls = <<>>
    /\ updates = <<>>
    /\ exc = <<>>
    /\ PoolStarted
    /\ next_message_id = [c \in Chats |-> 1]
    /\ FirstSubmission
    /\ failed_edit = 0
    /\ TextReceived

\* process, up to app.ainvoke: the status message is created by
\* _update_status without a status_message_id; when create_status_message
\* raises, _update_status returns None and status_message_id stays None
Begin ==
    /\ UNCHANGED <<pool_vars, user_vars, intake_vars, transport_vars, queue_vars>>
    /\ pc = "start"
    /\ \E created \in BOOLEAN :
         IF created
         THEN /\ status_message_id' = StatusMessageHandle
              /\ updates' = << Progress("INITIALIZED", 10, "starting", "") >>
         ELSE /\ status_message_id' = None
              /\ updates' = updates
    /\ pc' = "precheck"
    /\ UNCHANGED <<dida_configured, precheck_result, format_content_result,
                   tasks, save_success, error_message, next, results,
                   entered, calls, exc>>

\* _get_precheck_status_text
PrecheckStatusText(pr) ==
    IF pr.contains_url /\ pr.contains_text THEN "url and text detected"
    ELSE IF pr.contains_url THEN "url detected"
    ELSE IF pr.contains_text THEN "text detected"
    ELSE "no valid content detected"

\* Branch of a conditional edge: the routing function's value r is looked up
\* in the path map; the run moves to ends[r], or the lookup raises
Branch(ends, r) ==
    IF Resolves(ends, r)
    THEN /\ pc' = ends[r]
         /\ exc' = exc
    ELSE /\ pc' = "except"
         /\ exc' = KeyErrorText(r)

\* node "precheck": _content_precheck, then the conditional edge.  The
\* except clause of the node re-raises
ContentPrecheck ==
    /\ UNCHANGED <<pool_vars, user_vars, intake_vars, transport_vars, queue_vars>>
    /\ pc = "precheck"
    /\ entered' = Append(entered, "precheck")
    /\ LET u1 == Emit(updates, status_message_id,
                      Progress("PREPROCESSING", 20, "prechecking", "search"))
       IN \/ \E msg \in ErrorMessages :
               /\ calls' = Append(calls, Call("ContentClassifier.analyze", 0, "", "raise"))
               /\ updates' = u1
               /\ precheck_result' = precheck_result
               /\ exc' = msg
               /\ pc' = "except"
          \/ \E pr \in PrecheckResults :
               /\ calls' = Append(calls, Call("ContentClassifier.analyze", 0, "", "ok"))
               /\ updates' = Emit(u1, status_message_id,
                                  Progress("PREPROCESSING", 30, PrecheckStatusText(pr), "sparkles"))
               /\ precheck_result' = pr
               /\ Branch(PrecheckEnds, RouteAfterUrlCheck(pr))
    /\ UNCHANGED <<dida_configured, status_message_id, format_content_result,
                   tasks, save_success, error_message, next, results>>

\* url_summary with an edge to END instead of format_content
UrlSummaryEndsRun ==
    /\ UNCHANGED <<pool_vars, user_vars, intake_vars, transport_vars, queue_vars>>
    /\ pc = "url_summary"
    /\ entered' = Append(entered, "url_summary")
    /\ pc' = "done"
    /\ UNCHANGED <<dida_configured, status_message_id, precheck_result,
                   format_content_result, tasks, save_success, error_message,
                   next, results, calls, updates, exc>>

\* node "url_summary": _url_summary is "pass"; add_edge to format_content
UrlSummary ==
    /\ UNCHANGED <<pool_vars, user_vars, intake_vars, transport_vars, queue_vars>>
    /\ pc = "url_summary"
    /\ entered' = Append(entered, "url_summary")
    /\ pc' = "format_content"
    /\ UNCHANGED <<dida_configured, status_message_id, precheck_result,
                   format_content_result, tasks, save_success, error_message,
                   next, results, calls, updates, exc>>

\* node "format_content": _format_content, then add_edge("format_content",
\* "save_notion").  The except clause returns a state, it does not raise
FormatContent ==
    /\ UNCHANGED <<pool_vars, user_vars, intake_vars, transport_vars, queue_vars>>
    /\ pc = "format_content"
    /\ entered' = Append(entered, "format_content")
    /\ \/ \E msg \in ErrorMessages :
            /\ calls' = Append(calls, Call("ContentFormatter.format", 0, "", "raise"))
            /\ format_content_result' = format_content_result
            /\ error_message' = msg
            /\ next' = END
       \/ \E r \in FormatResults :
            /\ calls' = Append(calls, Call("ContentFormatter.format", 0, "", "ok"))
            /\ format_content_result' = r
            /\ error_message' = error_message
            /\ next' = "save_notion"
    /\ pc' = "save_notion"
    /\ UNCHANGED <<dida_configured, status_message_id, precheck_result, tasks,
                   save_success, results, updates, exc>>

\* an except clause that reports the error and leaves the state as it was
SaveFailedNoFields(u1, cl, msg) ==
    /\ calls' = cl
    /\ updates' = Emit(u1, status_message_id,
                       Failure("SAVING_TO_NOTION", Innermost(msg)))
    /\ error_message' = error_message
    /\ save_success' = FALSE
    /\ next' = next

\* the except clause of _save_to_notion
SaveFailed(u1, cl, msg) ==
    /\ calls' = cl
    /\ updates' = Emit(u1, status_message_id,
                       Failure("SAVING_TO_NOTION", Innermost(msg)))
    /\ error_message' = Innermost(msg)
    /\ save_success' = FALSE
    /\ next' = END

\* a save that skips a Message a note was already created for
SaveToNotionOnce ==
    /\ UNCHANGED <<pool_vars, user_vars, intake_vars, transport_vars, queue_vars>>
    /\ pc = "save_notion"
    /\ entered' = Append(entered, "save_notion")
    /\ LET u1 == Emit(updates, status_message_id,
                      Progress("SAVING_TO_NOTION", 70, "saving to Notion", ""))
           add_note(outcome) == Append(calls, Call("NoteStore.create", 0, "", outcome))
       IN IF ~format_content_result.nonempty
          THEN SaveFailed(u1, calls, <<"format result is empty">>)
          ELSE \/ /\ calls' = IF earlier.note THEN calls ELSE add_note("ok")
                  /\ updates' = Emit(u1, status_message_id,
                                     Progress("SAVING_TO_NOTION", 80, "saved to Notion", "check"))
                  /\ error_message' = error_message
                  /\ save_success' = TRUE
                  /\ next' = "extract_tasks"
               \/ SaveFailed(u1, add_note("null"), <<"saving to Notion failed">>)
               \/ \E msg \in ErrorMessages : SaveFailed(u1, add_note("raise"), msg)
    /\ Branch(SaveEnds, RouteAfterSave(precheck_result, save_success'))
    /\ UNCHANGED <<dida_configured, status_message_id, precheck_result,
                   format_content_result, tasks, results>>

\* node "save_notion": _save_to_notion, then the conditional edge
SaveToNotion ==
    /\ UNCHANGED <<pool_vars, user_vars, intake_vars, transport_vars, queue_vars>>
    /\ pc = "save_notion"
    /\ entered' = Append(entered, "save_notion")
    /\ LET u1 == Emit(updates, status_message_id,
                      Progress("SAVING_TO_NOTION", 70, "saving to Notion", ""))
           add_note(outcome) == Append(calls, Call("NoteStore.create", 0, "", outcome))
       IN IF ~format_content_result.nonempty
          THEN SaveFailed(u1, calls, <<"format result is empty">>)
          ELSE \/ /\ calls' = add_note("ok")
                  /\ updates' = Emit(u1, status_message_id,
                                     Progress("SAVING_TO_NOTION", 80, "saved to Notion", "check"))
                  /\ error_message' = error_message
                  /\ save_success' = TRUE
                  /\ next' = "extract_tasks"
               \/ SaveFailed(u1, add_note("null"), <<"saving to Notion failed">>)
               \/ \E msg \in ErrorMessages : SaveFailed(u1, add_note("raise"), msg)
    /\ Branch(SaveEnds, RouteAfterSave(precheck_result, save_success'))
    /\ UNCHANGED <<dida_configured, status_message_id, precheck_result,
                   format_content_result, tasks, results>>

\* node "extract_tasks": _extract_tasks, then add_edge("extract_tasks",
\* "create_tasks").  The except clause returns a state, it does not raise
ExtractTasks ==
    /\ UNCHANGED <<pool_vars, user_vars, intake_vars, transport_vars, queue_vars>>
    /\ pc = "extract_tasks"
    /\ entered' = Append(entered, "extract_tasks")
    /\ LET u1 == Emit(updates, status_message_id,
                      Progress("TASK_EXTRACTION", 95, "extracting tasks", "pin"))
       IN \/ \E msg \in ErrorMessages :
               /\ calls' = Append(calls, Call("TaskExtractor.extract", 0, "", "raise"))
               /\ updates' = Emit(u1, status_message_id,
                                  Failure("ERROR", <<"extracting tasks failed">> \o msg))
               /\ tasks' = tasks
               /\ error_message' = <<"extracting tasks failed">> \o msg
               /\ next' = END
          \/ \E ts \in TaskLists :
               /\ calls' = Append(calls, Call("TaskExtractor.extract", 0, "", "ok"))
               /\ updates' = u1
               /\ tasks' = ts
               /\ error_message' = error_message
               /\ next' = "create_tasks"
    /\ pc' = "create_tasks"
    /\ UNCHANGED <<dida_configured, status_message_id, precheck_result,
                   format_content_result, save_success, results, exc>>

\* lines 629-749 of _create_tasks: the report, and the outer except clause
\* (lines 751-763) when building it raises
CreateTasksReport(u1) ==
    IF status_message_id # None /\ ReportRaises(tasks)
    THEN /\ updates' = Emit(u1, status_message_id,
                            Failure("ERROR", <<"creating tasks failed">>
                                             \o IsoformatError(FirstBadDate(tasks))))
         /\ error_message' = IsoformatError(FirstBadDate(tasks))
    ELSE /\ updates' = Emit(u1, status_message_id,
                            Completed(ReportLines(save_success,
                                                  format_content_result, tasks)))
         /\ error_message' = error_message

\* node "create_tasks": _create_tasks, then add_edge("create_tasks", END)
CreateTasks ==
    /\ UNCHANGED <<pool_vars, user_vars, intake_vars, transport_vars, queue_vars>>
    /\ pc = "create_tasks"
    /\ entered' = Append(entered, "create_tasks")
    /\ IF tasks # <<>>
       THEN LET u1 == Emit(updates, status_message_id,
                           Progress("CREATING_TASKS", 98, "creating tasks", ""))
            IN IF ~dida_configured
               THEN /\ updates' = u1
                    /\ error_message' = <<"configure the to-do service first">>
                    /\ UNCHANGED <<results, calls>>
               ELSE \E oc \in [DOMAIN tasks -> CreateOutcomes] :
                      LET loop == CreateLoop(tasks, oc, 1, <<>>, <<>>)
                      IN /\ Drawn(tasks, oc)
                         /\ results' = loop.results
                         /\ calls' = calls \o loop.calls
                         /\ CreateTasksReport(u1)
       ELSE /\ CreateTasksReport(updates)
            /\ UNCHANGED <<results, calls>>
    /\ next' = END
    /\ pc' = "done"
    /\ UNCHANGED <<dida_configured, status_message_id, precheck_result,
                   format_content_result, tasks, save_success, exc>>

\* the except clause without the status update
ProcessExceptSilent ==
    /\ UNCHANGED <<pool_vars, user_vars, intake_vars, transport_vars, queue_vars>>
    /\ pc = "except"
    /\ pc' = "done"
    /\ UNCHANGED <<dida_configured, status_message_id, precheck_result,
                   format_content_result, tasks, save_success, error_message,
                   next, results, entered, calls, updates, exc>>

\* an except clause that reports the error and raises it again
ProcessExceptReraise ==
    /\ UNCHANGED <<pool_vars, user_vars, intake_vars, transport_vars, queue_vars>>
    /\ pc = "except"
    /\ updates' = Emit(updates, status_message_id,
                       Failure("ERROR", Innermost(exc)))
    /\ pc' = "raised"
    /\ UNCHANGED <<dida_configured, status_message_id, precheck_result,
                   format_content_result, tasks, save_success, error_message,
                   next, results, entered, calls, exc>>

\* the except clause of process (lines 891-906)
ProcessExcept ==
    /\ UNCHANGED <<pool_vars, user_vars, intake_vars, transport_vars, queue_vars>>
    /\ pc = "except"
    /\ updates' = Emit(updates, status_message_id,
                       Failure("ERROR", Innermost(exc)))
    /\ pc' = "done"
    /\ UNCHANGED <<dida_configured, status_message_id, precheck_result,
                   format_content_result, tasks, save_success, error_message,
                   next, results, entered, calls, exc>>

\* what process returns: {"error": str(e)} from its except clause (line
\* 906), final_state.get("results", {}) otherwise (line 889); no node writes
\* the field "results", so that value is the empty dict of the first state
NoError == <<>>
ProcessResult == [error |-> exc]

Next ==
    \/ Begin
    \/ ContentPrecheck
    \/ UrlSummary
    \/ FormatContent
    \/ SaveToNotion
    \/ ExtractTasks
    \/ CreateTasks
    \/ ProcessExcept

Spec == Init /\ [][Next]_vars

----------------------------------------------------------------------------
(* The same Message handed to process more than once *)

\* what the runs so far have created
Made(op) == \E i \in DOMAIN calls : calls[i].op = op /\ calls[i].outcome = "ok"
Left ==
    [note |-> earlier.note \/ Made("NoteStore.create"),
     task |-> earlier.task \/ Made("TaskStore.create")]

\* process is called with a Message it has processed before.  The state of
\* the run is built anew by AgentState(...) (lines 858-869) and the graph is
\* compiled without a checkpointer (line 109); between the two runs the
\* user may have stored another project list (set_user_config).  The
\* histories follow the run in progress
Resubmit ==
    /\ pc = "done"
    /\ submission < MaxSubmissions
    /\ submission' = submission + 1
    /\ earlier' = Left
    /\ dida_projects' \in ProjectLists
    /\ pc' = "start"
    /\ status_message_id' = None
    /\ precheck_result' = [contains_url |-> FALSE, contains_text |-> FALSE]
    /\ format_content_result' = EmptyFormat
    /\ tasks' = <<>>
    /\ save_success' = FALSE
    /\ error_message' = <<>>
    /\ next' = START
    /\ results' = <<>>
    /\ entered' = <<>>
    /\ calls' = <<>>
    /\ updates' = <<>>
    /\ exc' = <<>>
    /\ failed_edit' = 0
    /\ UNCHANGED dida_configured
    /\ UNCHANGED <<pool_vars, intake_vars, queue_vars>>

ResubmitNext ==
    \/ Begin
    \/ ContentPrecheck
    \/ UrlSummary
    \/ FormatContent
    \/ SaveToNotion
    \/ ExtractTasks
    \/ CreateTasks
    \/ ProcessExcept
    \/ Resubmit

ResubmitSpec == Init /\ [][ResubmitNext]_vars

----------------------------------------------------------------------------
(* A message on its way into process: MessageRouter._process_message *)

\* "message = await self._convert_to_message(update.message)" (line 144)
ConvertToMessage ==
    /\ pc = "received"
    /\ message' = convert_to_message(update)
    /\ pc' = IF update.kind \in {"VOICE", "AUDIO"} THEN "media" ELSE "start"
    /\ UNCHANGED <<update, media_text>>
    /\ UNCHANGED <<dida_configured, status_message_id, precheck_result,
                   format_content_result, tasks, save_success, error_message,
                   next, results, entered, calls, updates, exc>>
    /\ UNCHANGED <<pool_vars, user_vars, transport_vars, queue_vars>>

\* "result = await self.media_processor.process(message=message);
\* text_content = result.get("text", "")" (lines 148-150): process_voice
\* transcribes and proofreads the recording and returns the text, which the
\* router keeps in a local variable; a failure leaves _process_message
\* through its except clause and process is not called.  The call of
\* process that follows is given "message" only (lines 157-160)
MediaProcess ==
    /\ pc = "media"
    /\ \/ \E t \in Transcripts :
            /\ media_text' = t
            /\ pc' = "start"
       \/ /\ media_text' = media_text
          /\ pc' = "rejected"
    /\ UNCHANGED <<update, message>>
    /\ UNCHANGED <<dida_configured, status_message_id, precheck_result,
                   format_content_result, tasks, save_success, error_message,
                   next, results, entered, calls, updates, exc>>
    /\ UNCHANGED <<pool_vars, user_vars, transport_vars, queue_vars>>

IntakeInit ==
    /\ pc = "received"
    /\ update \in Inbound
    /\ message = None
    /\ media_text = ""
    /\ dida_configured \in BOOLEAN
    /\ status_message_id = None
    /\ precheck_result = [contains_url |-> FALSE, contains_text |-> FALSE]
    /\ format_content_result = EmptyFormat
    /\ tasks = <<>>
    /\ save_success = FALSE
    /\ error_message = <<>>
    /\ next = START
    /\ results = <<>>
    /\ entered = <<>>
    /\ calls = <<>>
    /\ updates = <<>>
    /\ exc = <<>>
    /\ PoolStarted
    /\ next_message_id = [c \in Chats |-> 1]
    /\ FirstSubmission
    /\ failed_edit = 0

IntakeNext ==
    \/ ConvertToMessage
    \/ MediaProcess
    \/ Begin
    \/ ContentPrecheck
    \/ UrlSummary
    \/ FormatContent
    \/ SaveToNotion
    \/ ExtractTasks
    \/ CreateTasks
    \/ ProcessExcept

IntakeSpec == IntakeInit /\ [][IntakeNext]_vars

----------------------------------------------------------------------------
(* A run whose status edits can fail *)

\* an _update_status that lets the error of the transport through: it
\* reaches the except clause of process
EditFailsRaising ==
    /\ pc \notin {"start", "except", "done"}
    /\ status_message_id # None
    /\ updates # <<>>
    /\ failed_edit = 0
    /\ failed_edit' = Len(updates)
    /\ pc' = "except"
    /\ exc' = << "edit failed" >>
    /\ UNCHANGED <<dida_configured, status_message_id, precheck_result,
                   format_content_result, tasks, save_success, error_message,
                   next, results, entered, calls, updates>>
    /\ UNCHANGED <<pool_vars, user_vars, intake_vars, queue_vars>>

\* the edit of the status update issued last fails: message.edit_text
\* raises or the message is not in _status_messages.  update_status_message
\* catches the exception and returns False (state_manager.py 95-112);
\* _update_status logs a warning and returns None as it does after a
\* successful edit, inside its own "except Exception" (lines 800-816); the
\* nodes do not read what it returns
EditFails ==
    /\ pc \notin {"start", "except", "done"}
    /\ status_message_id # None
    /\ updates # <<>>
    /\ failed_edit = 0
    /\ failed_edit' = Len(updates)
    /\ UNCHANGED run_vars
    /\ UNCHANGED <<pool_vars, user_vars, intake_vars, queue_vars>>

EditNext ==
    \/ Begin
    \/ ContentPrecheck
    \/ UrlSummary
    \/ FormatContent
    \/ SaveToNotion
    \/ ExtractTasks
    \/ CreateTasks
    \/ ProcessExcept
    \/ EditFails

EditSpec == Init /\ [][EditNext]_vars

----------------------------------------------------------------------------
(* The worker pool of TelegramBot (telegram_bot.py), the router            *)
(* (message_router.py) and the state shared by the runs the workers drive: *)
(* the one NoteTakerAgent built in initialize, with its user_background,   *)
(* and the one TelegramStateManager, with its _status_messages.  A run is  *)
(* cut at the awaits at which another worker can be scheduled.             *)

\* ids the transport gives to the first message it sends in a chat: a
\* message_id is unique inside its chat only
FirstIds == {1, 2}

\* self._status_messages[str(message.message_id)] = message: the key is the
\* message id alone, the value is the Message (its chat and its id)
Store(d, id, chat) ==
    { e \in d : e.key # id } \cup { [key |-> id, chat |-> chat, id |-> id] }
\* self._status_messages.get(message_id)
Get(d, key) == { e \in d : e.key = key }

StatusEffect(e, sm, ids, sends) ==
    [edits |-> e, status_messages |-> sm, next_message_id |-> ids, sends |-> sends]

\* _update_status (lines 800-812): with a status_message_id the stored
\* message is edited (update_status_message; an unknown id edits nothing),
\* without one a message is sent and stored (create_status_message)
UpdateStatus(m, sid) ==
    IF sid # None
    THEN StatusEffect(
           edits \cup { [msg |-> m, handle |-> sid, chat |-> e.chat, id |-> e.id] :
                          e \in Get(status_messages, sid) },
           status_messages, next_message_id, 0)
    ELSE LET c == ChatOf(m)
             id == next_message_id[c]
         IN StatusEffect(edits, Store(status_messages, id, c),
                         [next_message_id EXCEPT ![c] = id + 1], 1)

\* a node that updates the status whether or not a message was created
NodeUpdatesUnguarded(sid) == TRUE

\* "if self.telegram_status_updater and status_message_id:" in the nodes
NodeUpdates(sid) == sid # None

\* a status update of a node of run m
NodeStatus(m) ==
    IF NodeUpdates(runs[m].status_message_id)
    THEN UpdateStatus(m, runs[m].status_message_id)
    ELSE StatusEffect(edits, status_messages, next_message_id, 0)

\* run m is being driven by a worker task that has not been cancelled
Driven(m) ==
    /\ runs[m].worker \in Workers
    /\ workers[runs[m].worker] = Worker("busy", m)

\* a loop that has no "except Exception"
MessageWorkerNoExcept(escaped) == IF escaped THEN "dead" ELSE "get"

\* a worker without "while True": it ends after its first message
MessageWorkerOneShot(escaped) == "dead"

\* _message_worker after _process_message returned or raised: "except
\* Exception" logs, "finally" calls task_done, "while True" loops
MessageWorkerLoop(escaped) == "get"

\* asyncio.Queue.task_done: ValueError("task_done() called too many times")
\* when no put is unfinished, else one unfinished task fewer
QueueTaskDone(n) == IF n <= 0 THEN [raises |-> TRUE, unfinished_tasks |-> n]
                    ELSE [raises |-> FALSE, unfinished_tasks |-> n - 1]

\* "finally: self.message_queue.task_done()" of _message_worker (lines
\* 220-221) in a worker that holds item: it runs however the try block was
\* left, after the break of "except asyncio.CancelledError" as well
FinallyTaskDone(item, n, done) ==
    [unfinished_tasks |-> QueueTaskDone(n).unfinished_tasks,
     task_done |-> [done EXCEPT ![item] = @ + 1]]

\* the worker of run m leaves the try block after _process_message
Finally(m, after) ==
    IF after[runs[m].worker].state = "busy"
    THEN UNCHANGED queue_vars
    ELSE LET eff == FinallyTaskDone(m, unfinished_tasks, task_done)
         IN /\ unfinished_tasks' = eff.unfinished_tasks
            /\ task_done' = eff.task_done

\* every worker task is cancelled: each one, in the order of _workers,
\* leaves the loop through "except asyncio.CancelledError: break" and
\* "finally"
RECURSIVE CancelFrom(_, _, _, _)
CancelFrom(w, n, done, ws) ==
    IF w > max_workers THEN [unfinished_tasks |-> n, task_done |-> done]
    ELSE LET eff == FinallyTaskDone(ws[w].msg, n, done)
         IN CancelFrom(w + 1, eff.unfinished_tasks, eff.task_done, ws)

CancelAll(n, done, ws) == CancelFrom(1, n, done, ws)

\* the worker of run m is back in its loop
Release(m, escaped) ==
    [workers EXCEPT ![runs[m].worker] = Worker(MessageWorkerLoop(escaped), 0)]

Reply(m, kind) == [msg |-> m, kind |-> kind]

\* a handler that starts the run itself
HandleMessageInline ==
    /\ submitted < MaxMessages
    /\ LET m == submitted + 1
       IN /\ runs' = [runs EXCEPT ![m].pc = "route"]
          /\ submitted' = m
    /\ UNCHANGED <<message_queue, workers, user_background, status_messages,
                   next_message_id, stopped, dequeued, edits, replies>>
    /\ UNCHANGED <<run_vars, user_vars, intake_vars, transport_vars,
                   queue_vars>>

\* a queue built with maxsize=1: put waits while the queue is full
HandleMessageBounded ==
    /\ submitted < MaxMessages
    /\ Len(message_queue) < 1
    /\ LET m == submitted + 1
       IN /\ message_queue' = Append(message_queue, m)
          /\ runs' = [runs EXCEPT ![m].pc = "queued"]
          /\ submitted' = m
    /\ UNCHANGED <<workers, user_background, status_messages, next_message_id,
                   stopped, dequeued, edits, replies>>
    /\ UNCHANGED <<run_vars, user_vars, intake_vars, transport_vars,
                   queue_vars>>

\* _handle_message for an update that carries a message (one without
\* returns at once): message_queue.put on the unbounded asyncio.Queue
HandleMessage ==
    /\ submitted < MaxMessages
    /\ LET m == submitted + 1
       IN /\ message_queue' = Append(message_queue, m)
          /\ runs' = [runs EXCEPT ![m].pc = "queued"]
          /\ submitted' = m
    /\ UNCHANGED <<workers, user_background, status_messages, next_message_id,
                   stopped, dequeued, edits, replies>>
    /\ UNCHANGED <<run_vars, user_vars, intake_vars, transport_vars>>
    /\ unfinished_tasks' = unfinished_tasks + 1
    /\ task_done' = task_done

\* _message_worker: "update, context = await self.message_queue.get()".
\* The worker tasks run the same code and nothing tells them apart, so of
\* the workers waiting in get the first one is taken to receive the item
MessageWorkerGet(w) ==
    /\ workers[w].state = "get"
    /\ \A v \in 1..(w - 1) : workers[v].state # "get"
    /\ message_queue # <<>>
    /\ LET m == Head(message_queue)
       IN /\ workers' = [workers EXCEPT ![w] = Worker("busy", m)]
          /\ runs' = [runs EXCEPT ![m].pc = "route", ![m].worker = w]
          /\ dequeued' = Append(dequeued, m)
    /\ message_queue' = Tail(message_queue)
    /\ UNCHANGED <<submitted, user_background, status_messages,
                   next_message_id, stopped, edits, replies>>
    /\ UNCHANGED <<run_vars, user_vars, intake_vars, transport_vars,
                   queue_vars>>

\* what happens to a dequeued message before NoteTakerAgent.process: the
\* user is entering a setting and _check_settings_state consumes the text;
\* a media group goes to _handle_media_group_message, which the router does
\* not define (AttributeError in route); _convert_to_message or the media
\* processor raises inside _process_message; or the message is converted
RouteOutcomes == {"ok", "settings", "media_group", "convert_raises"}

\* route and _process_message up to the call of note_taker.process
Route(m) ==
    /\ runs[m].pc = "route"
    /\ Driven(m)
    /\ \E o \in RouteOutcomes :
         /\ runs' = [runs EXCEPT
                       ![m].pc = CASE o = "ok" -> "process"
                                   [] o = "settings" -> "done"
                                   [] o = "media_group" -> "route_except"
                                   [] o = "convert_raises" -> "process_message_except",
                       ![m].raised = (o \in {"media_group", "convert_raises"})]
         /\ workers' = IF o = "settings" THEN Release(m, FALSE) ELSE workers
    /\ UNCHANGED <<message_queue, submitted, user_background, status_messages,
                   next_message_id, stopped, dequeued, edits, replies>>
    /\ UNCHANGED <<run_vars, user_vars, intake_vars, transport_vars>>
    /\ Finally(m, workers')

\* "results = await self.note_taker.process(...)": the worker is suspended
\* inside the workflow of the agent
ProcessMessageCall(m) ==
    /\ runs[m].pc = "process"
    /\ Driven(m)
    /\ runs' = [runs EXCEPT ![m].pc = "workflow"]
    /\ UNCHANGED <<message_queue, submitted, workers, user_background,
                   status_messages, next_message_id, stopped, dequeued, edits,
                   replies>>
    /\ UNCHANGED <<run_vars, user_vars, intake_vars, transport_vars,
                   queue_vars>>

\* process returns (it catches every exception) and _process_message goes
\* on: the empty "results" of the final state is not replied to,
\* {"error": ...} is sent as a result reply; when that reply raises, the
\* except clause of _process_message runs
ProcessMessageResult(m) ==
    /\ runs[m].pc = "workflow"
    /\ Driven(m)
    /\ \/ /\ runs' = [runs EXCEPT ![m].pc = "done"]
          /\ workers' = Release(m, FALSE)
          /\ replies' = replies
       \/ /\ replies' = replies \cup { Reply(m, "result") }
          /\ \E delivered \in BOOLEAN :
               IF delivered
               THEN /\ runs' = [runs EXCEPT ![m].pc = "done"]
                    /\ workers' = Release(m, FALSE)
               ELSE /\ runs' = [runs EXCEPT ![m].pc = "process_message_except",
                                            ![m].raised = TRUE]
                    /\ workers' = workers
    /\ UNCHANGED <<message_queue, submitted, user_background, status_messages,
                   next_message_id, stopped, dequeued, edits>>
    /\ UNCHANGED <<run_vars, user_vars, intake_vars, transport_vars>>
    /\ Finally(m, workers')

\* an except clause that only logs
ProcessMessageExceptSilent(m) ==
    /\ runs[m].pc = "process_message_except"
    /\ Driven(m)
    /\ runs' = [runs EXCEPT ![m].pc = "done"]
    /\ workers' = Release(m, FALSE)
    /\ UNCHANGED <<message_queue, submitted, user_background, status_messages,
                   next_message_id, stopped, dequeued, edits, replies>>
    /\ UNCHANGED <<run_vars, user_vars, intake_vars, transport_vars,
                   queue_vars>>

\* the except clause of _process_message: reply_text("processing failed:
\* <error>"); a reply that raises leaves _process_message
ProcessMessageExcept(m) ==
    /\ runs[m].pc = "process_message_except"
    /\ Driven(m)
    /\ replies' = replies \cup { Reply(m, "failed") }
    /\ \E delivered \in BOOLEAN :
         IF delivered
         THEN /\ runs' = [runs EXCEPT ![m].pc = "done"]
              /\ workers' = Release(m, FALSE)
         ELSE /\ runs' = [runs EXCEPT ![m].pc = "route_except"]
              /\ workers' = workers
    /\ UNCHANGED <<message_queue, submitted, user_background, status_messages,
                   next_message_id, stopped, dequeued, edits>>
    /\ UNCHANGED <<run_vars, user_vars, intake_vars, transport_vars>>
    /\ Finally(m, workers')

\* the except clause of route: reply_text(the generic error text); a reply
\* that raises reaches "except Exception" of _message_worker
RouteExcept(m) ==
    /\ runs[m].pc = "route_except"
    /\ Driven(m)
    /\ replies' = replies \cup { Reply(m, "generic") }
    /\ \E delivered \in BOOLEAN :
         /\ runs' = [runs EXCEPT ![m].pc = "done", ![m].escaped = ~delivered]
         /\ workers' = Release(m, ~delivered)
    /\ UNCHANGED <<message_queue, submitted, user_background, status_messages,
                   next_message_id, stopped, dequeued, edits>>
    /\ UNCHANGED <<run_vars, user_vars, intake_vars, transport_vars>>
    /\ Finally(m, workers')

\* a stop that cancels only the tasks waiting in message_queue.get
StopIdleOnly ==
    /\ ~stopped
    /\ workers' = [w \in Workers |->
                     IF workers[w].state = "get"
                     THEN Worker("cancelled", 0) ELSE workers[w]]
    /\ stopped' = TRUE
    /\ UNCHANGED <<message_queue, submitted, runs, user_background,
                   status_messages, next_message_id, dequeued, edits, replies>>
    /\ UNCHANGED <<run_vars, user_vars, intake_vars, transport_vars,
                   queue_vars>>

\* stop, lines 190-196: every worker task is cancelled and awaited by
\* gather.  CancelledError is raised at the await the task is suspended
\* at; no "except Exception" on the way catches it, and _message_worker
\* leaves its loop on it
Stop ==
    /\ ~stopped
    /\ workers' = [w \in Workers |-> Worker("cancelled", workers[w].msg)]
    /\ stopped' = TRUE
    /\ UNCHANGED <<message_queue, submitted, runs, user_background,
                   status_messages, next_message_id, dequeued, edits, replies>>
    /\ UNCHANGED <<run_vars, user_vars, intake_vars, transport_vars>>
    /\ LET eff == CancelAll(unfinished_tasks, task_done, workers)
       IN /\ unfinished_tasks' = eff.unfinished_tasks
          /\ task_done' = eff.task_done

\* the values of the single run while the pool or the agent is followed
RunIdle ==
    /\ pc = "start"
    /\ dida_configured = FALSE
    /\ status_message_id = None
    /\ precheck_result = [contains_url |-> FALSE, contains_text |-> FALSE]
    /\ format_content_result = EmptyFormat
    /\ tasks = <<>>
    /\ save_success = FALSE
    /\ error_message = <<>>
    /\ next = START
    /\ results = <<>>
    /\ entered = <<>>
    /\ calls = <<>>
    /\ updates = <<>>
    /\ exc = <<>>
    /\ FirstSubmission
    /\ failed_edit = 0
    /\ TextReceived

\* the state after initialize and start (lines 176-179 create the workers)
PoolInit ==
    /\ RunIdle
    /\ PoolStarted
    /\ next_message_id = [c \in Chats |-> 1]

PoolNext ==
    \/ HandleMessage
    \/ \E w \in Workers : MessageWorkerGet(w)
    \/ \E m \in Messages : Route(m)
    \/ \E m \in Messages : ProcessMessageCall(m)
    \/ \E m \in Messages : ProcessMessageResult(m)
    \/ \E m \in Messages : ProcessMessageExcept(m)
    \/ \E m \in Messages : RouteExcept(m)
    \/ Stop

PoolSpec == PoolInit /\ [][PoolNext]_vars

----------------------------------------------------------------------------
(* The pool with capability calls that never return, under the scheduling  *)
(* of the event loop: a worker task that can take a step is run, as long   *)
(* as the one thread of the loop is not held inside a synchronous call.    *)

\* how a capability call is made.  The classifier, formatter and extractor
\* are awaited ("await chain.ainvoke(...)", llm_service.py); NoteStore.create
\* and TaskStore.create are synchronous calls inside "async def"
\* (self.client.pages.create of notion_client.Client; self.session.post of
\* requests.Session, given no timeout), made on the thread of the loop
CallKinds == {"awaited", "blocking"}

\* a capability call made inside the workflow of run m never returns
Stall(m) ==
    /\ runs[m].pc = "workflow"
    /\ Driven(m)
    /\ \E k \in CallKinds :
         runs' = [runs EXCEPT
                    ![m].pc = IF k = "awaited" THEN "stalled" ELSE "blocked"]
    /\ UNCHANGED <<message_queue, submitted, workers, user_background,
                   status_messages, next_message_id, stopped, dequeued, edits,
                   replies>>
    /\ UNCHANGED <<run_vars, user_vars, intake_vars, transport_vars,
                   queue_vars>>

\* the thread of the event loop is inside a call that does not return: no
\* coroutine of the process is resumed, handlers and stop included
LoopBlocked == \E m \in Messages : runs[m].pc = "blocked"

\* the steps the task of worker w can take
WorkerStep(w) ==
    /\ ~LoopBlocked
    /\ \/ MessageWorkerGet(w)
       \/ \E m \in Messages :
            /\ workers[w].msg = m
            /\ \/ Route(m)
               \/ ProcessMessageCall(m)
               \/ ProcessMessageResult(m)
               \/ ProcessMessageExcept(m)
               \/ RouteExcept(m)

StallNext ==
    \/ ~LoopBlocked /\ HandleMessage
    \/ \E w \in Workers : ~LoopBlocked /\ MessageWorkerGet(w)
    \/ \E m \in Messages : ~LoopBlocked /\ Route(m)
    \/ \E m \in Messages : ~LoopBlocked /\ ProcessMessageCall(m)
    \/ \E m \in Messages : ~LoopBlocked /\ ProcessMessageResult(m)
    \/ \E m \in Messages : ~LoopBlocked /\ ProcessMessageExcept(m)
    \/ \E m \in Messages : ~LoopBlocked /\ RouteExcept(m)
    \/ \E m \in Messages : ~LoopBlocked /\ Stall(m)
    \/ ~LoopBlocked /\ Stop

StallSpec ==
    /\ PoolInit
    /\ [][StallNext]_vars
    /\ \A w \in Workers : WF_vars(WorkerStep(w))

\* the running pool whose calls all return: the event loop resumes every
\* worker task that can take a step (no run stalls here, so the loop is
\* never blocked)
\* stop is not called; MaxLiveMessages messages are followed to their end
LiveNext ==
    \/ submitted < MaxLiveMessages /\ HandleMessage
    \/ \E w \in Workers : MessageWorkerGet(w)
    \/ \E m \in Messages : Route(m)
    \/ \E m \in Messages : ProcessMessageCall(m)
    \/ \E m \in Messages : ProcessMessageResult(m)
    \/ \E m \in Messages : ProcessMessageExcept(m)
    \/ \E m \in Messages : RouteExcept(m)

LiveSpec == PoolInit /\ [][LiveNext]_vars
            /\ \A w \in Workers : WF_vars(WorkerStep(w))

----------------------------------------------------------------------------
(* Concurrent calls of NoteTakerAgent.process.  TelegramBot.initialize     *)
(* builds one NoteTakerAgent and one TelegramStateManager; every worker    *)
(* calls process of that agent, so the runs in flight share the attribute  *)
(* user_background of the agent and the dictionary _status_messages of the *)
(* state manager.  MaxRuns runs are in flight, each driven by its own      *)
(* worker, and a run is cut at the awaits at which another can be          *)
(* scheduled.                                                              *)

Runs == 1..MaxRuns

\* process, lines 831-852: user_background is resolved for the user of the
\* message and stored in the agent; _update_status without an id sends the
\* status message as a reply to the inbound message, or send_message raises
Process(m) ==
    /\ runs[m].pc = "process"
    /\ user_background' = Background(UserOf(m))
    /\ \E sent \in BOOLEAN :
         IF sent
         THEN LET c == ChatOf(m)
                  id == next_message_id[c]
              IN /\ next_message_id' = [next_message_id EXCEPT ![c] = id + 1]
                 /\ runs' = [runs EXCEPT ![m].pc = "create_status_message",
                                         ![m].pending = id,
                                         ![m].sends = @ + 1]
         ELSE /\ next_message_id' = next_message_id
              /\ runs' = [runs EXCEPT ![m].pc = "format_content"]
    /\ UNCHANGED <<message_queue, submitted, workers, status_messages, stopped,
                   dequeued, edits, replies>>
    /\ UNCHANGED <<run_vars, user_vars, intake_vars, transport_vars,
                   queue_vars>>

\* create_status_message after send_message returned: the message is stored
\* under its id, and process keeps str(message_id) as status_message_id
CreateStatusMessage(m) ==
    /\ runs[m].pc = "create_status_message"
    /\ status_messages' = Store(status_messages, runs[m].pending, ChatOf(m))
    /\ runs' = [runs EXCEPT ![m].pc = "format_content",
                            ![m].status_message_id = runs[m].pending]
    /\ UNCHANGED <<message_queue, submitted, workers, user_background,
                   next_message_id, stopped, dequeued, edits, replies>>
    /\ UNCHANGED <<run_vars, user_vars, intake_vars, transport_vars,
                   queue_vars>>

\* the nodes precheck to save_notion of run m: their status updates, and
\* the background _format_content passes to format_content (line 356);
\* after save_notion the run goes on to extract_tasks or ends
RunFormatContent(m) ==
    /\ runs[m].pc = "format_content"
    /\ LET eff == NodeStatus(m)
       IN /\ edits' = eff.edits
          /\ status_messages' = eff.status_messages
          /\ next_message_id' = eff.next_message_id
          /\ \E nxt \in {"extract_tasks", "return"} :
               runs' = [runs EXCEPT ![m].pc = nxt,
                                    ![m].sends = @ + eff.sends,
                                    ![m].format_background = user_background]
    /\ UNCHANGED <<message_queue, submitted, workers, user_background, stopped,
                   dequeued, replies>>
    /\ UNCHANGED <<run_vars, user_vars, intake_vars, transport_vars,
                   queue_vars>>

\* the node extract_tasks of run m: its status update, then the profile and
\* the projects read from self.user_background (lines 479-497)
RunExtractTasks(m) ==
    /\ runs[m].pc = "extract_tasks"
    /\ LET eff == NodeStatus(m)
       IN /\ edits' = eff.edits
          /\ status_messages' = eff.status_messages
          /\ next_message_id' = eff.next_message_id
          /\ runs' = [runs EXCEPT ![m].pc = "return",
                                  ![m].sends = @ + eff.sends,
                                  ![m].extract_background = user_background]
    /\ UNCHANGED <<message_queue, submitted, workers, user_background, stopped,
                   dequeued, replies>>
    /\ UNCHANGED <<run_vars, user_vars, intake_vars, transport_vars,
                   queue_vars>>

\* the last status update of run m: the report of create_tasks, or the
\* failure update of a node or of the except clause of process
ProcessReturn(m) ==
    /\ runs[m].pc = "return"
    /\ LET eff == NodeStatus(m)
       IN /\ edits' = eff.edits
          /\ status_messages' = eff.status_messages
          /\ next_message_id' = eff.next_message_id
          /\ runs' = [runs EXCEPT ![m].pc = "done", ![m].sends = @ + eff.sends]
    /\ UNCHANGED <<message_queue, submitted, workers, user_background, stopped,
                   dequeued, replies>>
    /\ UNCHANGED <<run_vars, user_vars, intake_vars, transport_vars,
                   queue_vars>>

\* MaxRuns workers have each taken a message and called process
AgentInit ==
    /\ RunIdle
    /\ message_queue = <<>>
    /\ submitted = MaxRuns
    /\ workers = [w \in Runs |-> Worker("busy", w)]
    /\ runs = [m \in Runs |-> [NewRun EXCEPT !.pc = "process", !.worker = m]]
    /\ user_background = None
    /\ status_messages = {}
    /\ next_message_id \in [Chats -> FirstIds]
    /\ stopped = FALSE
    /\ dequeued = [m \in Runs |-> m]
    /\ unfinished_tasks = MaxRuns
    /\ task_done = [i \in Items |-> 0]
    /\ edits = {}
    /\ replies = {}

AgentNext ==
    \/ \E m \in Runs : Process(m)
    \/ \E m \in Runs : CreateStatusMessage(m)
    \/ \E m \in Runs : RunFormatContent(m)
    \/ \E m \in Runs : RunExtractTasks(m)
    \/ \E m \in Runs : ProcessReturn(m)

AgentSpec == AgentInit /\ [][AgentNext]_vars

----------------------------------------------------------------------------
(* Observations on the histories of a run *)

Entered(n) == \E i \in DOMAIN entered : entered[i] = n
Reached(n) == pc = n \/ Entered(n)
Called(op) == \E i \in DOMAIN calls : calls[i].op = op
CalledWith(op, outcome) ==
    \E i \in DOMAIN calls : calls[i].op = op /\ calls[i].outcome = outcome
CreateCalls == { i \in DOMAIN calls : calls[i].op = "TaskStore.create" }
CreateCalled(t) == \E i \in CreateCalls : calls[i].item = t
HasStatusMessage == status_message_id # None
UpdatesWith(status) == { i \in DOMAIN updates : updates[i].status = status }
ReportEmitted == UpdatesWith("COMPLETED") # {}
LastUpdate == updates[Len(updates)]
ResultLine(kind, t) == \E i \in DOMAIN results : results[i] = Line(kind, t)
CountKind(lines, kinds) == Cardinality({ i \in DOMAIN lines : lines[i].kind \in kinds })

\* task t names no project, or a project of the ProjectMap
Eligible(t) == tasks[t].projectId = "" \/ ProjectMapGet(tasks[t].projectId) # ""
DateOk(t) == tasks[t].dueDate = "" \/ IsoParses(tasks[t].dueDate)
\* the per-task loop of _create_tasks has run over the whole list
LoopRan == pc = "done" /\ Entered("create_tasks") /\ tasks # <<>> /\ dida_configured

----------------------------------------------------------------------------
(* Claims *)

\* C1 (as claimed): when TaskExtractor.extract raises, the run goes straight
\* to TERMINAL: create_tasks is not entered, TaskStore.create is not called,
\* no final report is emitted and the error update is the last update.
C1_ExtractFailureIsTerminal ==
    (pc = "done" /\ CalledWith("TaskExtractor.extract", "raise"))
      => /\ ~Entered("create_tasks")
         /\ ~Called("TaskStore.create")
         /\ ~ReportEmitted
         /\ HasStatusMessage => LastUpdate.status = "FAILED"

\* C2 (as claimed): in every run in which extraction succeeded, create_tasks
\* emits the final report as the last status update, without a progress bar,
\* whatever the task list and the outcome of each task.
C2_ReportAlwaysEmitted ==
    (pc = "done" /\ CalledWith("TaskExtractor.extract", "ok") /\ HasStatusMessage)
      => /\ Entered("create_tasks")
         /\ LastUpdate.status = "COMPLETED"
         /\ LastUpdate.progress = NoProgress
         /\ ~LastUpdate.bar

\* C3 (as claimed): after an item of the batch failed, every later item whose
\* project reference is empty or resolvable still gets its TaskStore.create
\* call.
C3_LaterEligibleItemsCreated ==
    LoopRan =>
      \A i, j \in DOMAIN tasks :
        (i < j /\ ResultLine("create_failed", i) /\ Eligible(j)) => CreateCalled(j)

\* C3 (amended): after an item of the batch failed, every later item whose
\* project reference is empty or resolvable and whose due date is absent or
\* parses still gets its TaskStore.create call, and the calls are made in
\* list order, at most one per item.
C3_BatchIsolation ==
    LoopRan =>
      /\ \A i, j \in DOMAIN tasks :
           (i < j /\ ResultLine("create_failed", i) /\ Eligible(j) /\ DateOk(j))
             => CreateCalled(j)
      /\ \A a, b \in CreateCalls : a < b => calls[a].item < calls[b].item

C3_Witness ==
    /\ LoopRan
    /\ \E i, j \in DOMAIN tasks :
         /\ i < j
         /\ ResultLine("create_failed", i)
         /\ Eligible(j) /\ DateOk(j) /\ CreateCalled(j)

\* C4 (as claimed): when NoteStore.create raises or returns null, the run
\* sets save_success=false, records error_message, issues exactly one error
\* status update, calls neither the extractor nor the task store and emits
\* no final report.
C4_SaveFailureOneError ==
    (pc = "done" /\ HasStatusMessage
       /\ (CalledWith("NoteStore.create", "raise") \/ CalledWith("NoteStore.create", "null")))
      => /\ ~save_success
         /\ error_message # <<>>
         /\ Cardinality(UpdatesWith("FAILED")) = 1
         /\ ~Called("TaskExtractor.extract")
         /\ ~Called("TaskStore.create")
         /\ ~ReportEmitted

\* C5 (as claimed): when ContentFormatter.format raises, save_notion is not
\* entered (no "saving" update, no NoteStore.create call) and the error shown
\* is the innermost segment of the formatter's own message.
C5_FormatFailureIsTerminal ==
    (pc = "done" /\ CalledWith("ContentFormatter.format", "raise"))
      => /\ ~Entered("save_notion")
         /\ \A i \in DOMAIN updates : updates[i].step # "SAVING_TO_NOTION"
         /\ ~Called("NoteStore.create")
         /\ HasStatusMessage =>
              /\ LastUpdate.status = "FAILED"
              /\ \E m \in ErrorMessages : LastUpdate.description.err = Innermost(m)

\* C6: when ContentClassifier.analyze raises, the run aborts: no formatter,
\* note store, extractor or task store call is made, no node after precheck
\* is entered, and a run that has a status message ends with exactly one
\* error update on it, carrying the innermost segment of the error.
C6_PrecheckFailureAborts ==
    CalledWith("ContentClassifier.analyze", "raise")
      => /\ pc \in {"except", "done"}
         /\ entered = << "precheck" >>
         /\ Len(calls) = 1
         /\ ~ReportEmitted
         /\ (pc = "done" /\ HasStatusMessage) =>
              /\ LastUpdate.status = "FAILED"
              /\ LastUpdate.description.err = Innermost(exc)
              /\ ~LastUpdate.bar
              /\ Cardinality(UpdatesWith("FAILED")) = 1

C6_Witness ==
    /\ pc = "done"
    /\ CalledWith("ContentClassifier.analyze", "raise")
    /\ HasStatusMessage
    /\ LastUpdate.status = "FAILED"
    /\ Len(exc) > 1

\* C7 (as claimed): the final report carries one "created" entry per task
\* actually created and one "project not found" warning line per task whose
\* non-empty project name does not resolve.
C7_ReportReflectsOutcomes ==
    (pc = "done" /\ ReportEmitted)
      => LET lines == LastUpdate.description.lines
         IN /\ CountKind(lines, {"created", "task_title"})
                 = Cardinality({ t \in DOMAIN tasks : ResultLine("created", t) })
            /\ CountKind(lines, {"project_not_found"})
                 = Cardinality({ t \in DOMAIN tasks : ~Eligible(t) })

\* C8 (as claimed): in create_tasks, TaskStore.create is called for a task
\* if and only if its project reference is empty or resolves.
C8_CreatedIffEligible ==
    (pc = "done" /\ Entered("create_tasks"))
      => \A t \in DOMAIN tasks : CreateCalled(t) <=> Eligible(t)

\* C8 (amended): once the to-do service is available, TaskStore.create is
\* called for a task if and only if its project reference is empty or
\* resolves and its due date is absent or parses; it is called with the
\* resolved id, at most once; a task whose project reference is non-empty
\* and unresolved is never submitted and has its warning in results,
\* wherever it stands in the list.
C8_CreatedIffEligibleAndDated ==
    LoopRan =>
      /\ \A t \in DOMAIN tasks :
           /\ CreateCalled(t) <=> (Eligible(t) /\ DateOk(t))
           /\ ~Eligible(t) => (ResultLine("project_not_found", t) /\ ~CreateCalled(t))
           /\ Eligible(t) => ~ResultLine("project_not_found", t)
      /\ \A a, b \in CreateCalls : calls[a].item = calls[b].item => a = b
      /\ \A a \in CreateCalls :
           calls[a].project_id = ProjectMapGet(tasks[calls[a].item].projectId)

C8_Witness ==
    /\ LoopRan
    /\ \E i, j \in DOMAIN tasks :
         /\ i < j
         /\ ~Eligible(i) /\ ResultLine("project_not_found", i) /\ ~CreateCalled(i)
         /\ CreateCalled(j)

C10_NoTextEndsOnProgress ==
    (pc = "done" /\ HasStatusMessage
       /\ CalledWith("ContentClassifier.analyze", "ok")
       /\ ~precheck_result.contains_text /\ ~precheck_result.contains_url
       /\ save_success)
      => /\ ~ReportEmitted
         /\ LastUpdate.status = "PROCESSING"

NoteCreateCalls == { i \in DOMAIN calls : calls[i].op = "NoteStore.create" }
PrecheckSucceeded == CalledWith("ContentClassifier.analyze", "ok")
UrlOnly == precheck_result.contains_url /\ ~precheck_result.contains_text

SuccessfulRun ==
    pc = "done" /\ HasStatusMessage /\ ReportEmitted /\ UpdatesWith("FAILED") = {}

\* C12: in every successful run the progress values of the status updates
\* are non-decreasing from the initial update (10) up to the final report,
\* which is the last update and the only one without a progress value.
C12_ProgressNonDecreasing ==
    SuccessfulRun
      => /\ updates[1].progress = 10
         /\ LastUpdate.status = "COMPLETED"
         /\ LastUpdate.progress = NoProgress
         /\ \A i \in 1..(Len(updates) - 1) :
              /\ updates[i].progress # NoProgress
              /\ \A j \in i..(Len(updates) - 1) :
                   updates[i].progress <= updates[j].progress

C12_Witness ==
    /\ SuccessfulRun
    /\ CalledWith("TaskStore.create", "ok")
    /\ Len(updates) = 8

----------------------------------------------------------------------------
(* Claims on concurrent runs of the agent *)

EditsOf(m) == { e \in edits : e.msg = m }

\* C13: in any run the status message is sent at most once, by process
\* before the workflow starts; every later status update of the run is an
\* edit carrying the id that send returned, and a run whose send failed
\* sends no status message at all.
C13_StatusCreatedOnce ==
    \A m \in Runs :
      /\ runs[m].sends <= 1
      /\ runs[m].sends = (IF runs[m].pending # None THEN 1 ELSE 0)
      /\ runs[m].status_message_id \in {None, runs[m].pending}
      /\ \A e \in EditsOf(m) :
           /\ runs[m].status_message_id # None
           /\ e.handle = runs[m].status_message_id

C13_Witness ==
    \E m, n \in Runs :
      /\ runs[m].pc = "done" /\ runs[n].pc = "done"
      /\ runs[m].status_message_id # None
      /\ runs[m].extract_background # None
      /\ EditsOf(m) # {}
      /\ runs[n].sends = 0
      /\ runs[n].extract_background # None
      /\ EditsOf(n) = {}

\* C14 (as claimed): for any interleaving of concurrent runs, also of
\* different chats, every status edit a run issues is applied to the status
\* message that run created, in that run's chat.
C14_EditsHitOwnStatusMessage ==
    \A e \in edits :
      /\ e.chat = ChatOf(e.msg)
      /\ e.id = runs[e.msg].status_message_id

\* C15 (as claimed): for any interleaving of concurrent runs of different
\* users, the background passed to the formatter and the one read by the
\* extractor in a run are those resolved for that run's own user.
C15_OwnBackground ==
    \A m \in Runs :
      /\ runs[m].format_background \in {None, Background(UserOf(m))}
      /\ runs[m].extract_background \in {None, Background(UserOf(m))}

----------------------------------------------------------------------------
(* Claims on the worker pool *)

\* positions of a message that a worker has dequeued and not finished
RunningPcs ==
    {"route", "process", "workflow", "process_message_except", "route_except"}
InFlight == { m \in Messages : runs[m].pc \in RunningPcs }
Live == { w \in Workers : workers[w].state \in {"get", "busy"} }
Queued(m) == \E i \in DOMAIN message_queue : message_queue[i] = m
Dequeued(m) == \E i \in DOMAIN dequeued : dequeued[i] = m
FailureReplied(m) == Reply(m, "failed") \in replies \/ Reply(m, "generic") \in replies

\* C16: no exception raised while a message is processed ends a worker:
\* until stop all max_workers workers are alive, a worker whose run ended,
\* with or without an exception, is back in its loop, and no worker ever
\* ends otherwise than by the cancellation of stop.
C16_WorkersSurviveExceptions ==
    /\ \A w \in Workers : workers[w].state # "dead"
    /\ ~stopped => Cardinality(Live) = max_workers
    /\ \A m \in Messages :
         (runs[m].pc = "done" /\ ~stopped) => workers[runs[m].worker].msg # m

C16_Witness ==
    \E m, n \in Messages :
      /\ ~stopped
      /\ runs[m].pc = "done"
      /\ runs[m].escaped
      /\ m < n
      /\ runs[n].worker = runs[m].worker
      /\ runs[n].pc = "workflow"

C18_AtMostPoolSizeRuns ==
    /\ Cardinality(InFlight) <= max_workers
    /\ \A m \in InFlight :
         /\ Dequeued(m)
         /\ runs[m].worker \in Workers
         /\ workers[runs[m].worker].msg = m
    /\ \A m, n \in InFlight : m # n => runs[m].worker # runs[n].worker
    /\ \A m \in Messages : Queued(m) => runs[m].pc = "queued"

C18_Witness ==
    /\ ~stopped
    /\ Cardinality(InFlight) = max_workers
    /\ message_queue # <<>>
    /\ \A w \in Workers : workers[w].state = "busy"

\* C19: submitting never blocks and never drops: whatever the length of the
\* queue and the number of busy workers, _handle_message can take the next
\* message, and every message submitted so far is either in the queue, in
\* arrival order, or has been dequeued.
C19_SubmitNeverBlocksNorDrops ==
    /\ submitted < MaxMessages => ENABLED HandleMessage
    /\ \A m \in 1..submitted : Queued(m) # Dequeued(m)
    /\ \A m \in Messages : m > submitted => ~Queued(m) /\ ~Dequeued(m)
    /\ \A i, j \in DOMAIN message_queue :
         i < j => message_queue[i] < message_queue[j]

C19_Witness ==
    /\ \A w \in Workers : workers[w].state = "busy"
    /\ Len(message_queue) = MaxMessages - max_workers
    /\ submitted = MaxMessages
    /\ Len(message_queue) >= 1

\* C20: once stop has returned every worker task has ended by cancellation,
\* and from then on nothing is dequeued, no run makes a step and no reply is
\* sent; messages may still be appended to the queue and stay there.
C20_ShutdownCancelsAll ==
    /\ [](stopped => \A w \in Workers : workers[w].state = "cancelled")
    /\ [][stopped =>
            /\ stopped'
            /\ workers' = workers
            /\ dequeued' = dequeued
            /\ replies' = replies
            /\ Len(message_queue') >= Len(message_queue)
            /\ SubSeq(message_queue', 1, Len(message_queue)) = message_queue
            /\ \A m \in Messages : runs[m].pc # "new" => runs'[m] = runs[m]]_vars

C20_Witness ==
    /\ stopped
    /\ message_queue # <<>>
    /\ \E m \in Messages : runs[m].pc = "workflow"
    /\ \E m \in Messages : runs[m].pc = "process_message_except"

----------------------------------------------------------------------------
(* Claims on the order of the steps of one run *)

NodeRank(n) ==
    CASE n = "precheck" -> 1
      [] n = "url_summary" -> 2
      [] n = "format_content" -> 3
      [] n = "save_notion" -> 4
      [] n = "extract_tasks" -> 5
      [] n = "create_tasks" -> 6

\* the node a capability is called from, and its place in the order
CallNode(op) ==
    CASE op = "ContentClassifier.analyze" -> "precheck"
      [] op = "ContentFormatter.format" -> "format_content"
      [] op = "NoteStore.create" -> "save_notion"
      [] op = "TaskExtractor.extract" -> "extract_tasks"
      [] op = "TaskStore.create" -> "create_tasks"

\* the nodes an edge of the graph leads to from node n
Successors(n) ==
    CASE n = "precheck" -> {"url_summary", "format_content"}
      [] n = "url_summary" -> {"format_content"}
      [] n = "format_content" -> {"save_notion"}
      [] n = "save_notion" -> {"extract_tasks"}
      [] n = "extract_tasks" -> {"create_tasks"}
      [] n = "create_tasks" -> {}

Issued(progress) == \E i \in DOMAIN updates : updates[i].progress = progress

\* C21: within one run the nodes are entered in the order of the graph,
\* each at most once and each directly after a node with an edge to it; the
\* capability calls are made in the order classify, format, NoteStore.create,
\* extract, TaskStore.create, none but TaskStore.create more than once; and
\* a node is not begun before the status updates of the nodes before it
\* have been issued (format_content and url_summary issue none).
C21_StepsInOrder ==
    /\ entered # <<>> => entered[1] = "precheck"
    /\ \A i \in 1..(Len(entered) - 1) : entered[i + 1] \in Successors(entered[i])
    /\ \A i, j \in DOMAIN entered : i < j => NodeRank(entered[i]) < NodeRank(entered[j])
    /\ \A i \in DOMAIN calls : Entered(CallNode(calls[i].op))
    /\ \A i, j \in DOMAIN calls :
         i < j => /\ NodeRank(CallNode(calls[i].op)) <= NodeRank(CallNode(calls[j].op))
                  /\ calls[i].op = calls[j].op => calls[i].op = "TaskStore.create"
    /\ HasStatusMessage =>
         /\ Reached("precheck") => Issued(10)
         /\ (Reached("url_summary") \/ Reached("format_content")
               \/ Reached("save_notion")) => Issued(20) /\ Issued(30)
         /\ Reached("extract_tasks") => Issued(70) /\ Issued(80)
         /\ Reached("create_tasks") => Issued(95)

C21_Witness ==
    /\ pc = "done"
    /\ HasStatusMessage
    /\ entered = <<"precheck", "url_summary", "format_content", "save_notion",
                   "extract_tasks", "create_tasks">>
    /\ Cardinality(CreateCalls) >= 2

----------------------------------------------------------------------------
(* Claims on the handling of failures inside one run *)

\* an exception of a collaborator is on its way out of the graph, or was
RaisedPastNode == exc \in ErrorMessages
\* building the report raised in the outer try of _create_tasks
ReportRaised ==
    /\ pc = "done" /\ Entered("create_tasks") /\ HasStatusMessage
    /\ tasks # <<>> => dida_configured
    /\ ReportRaises(tasks)

\* C22 (as claimed): every node catches its own exceptions and turns them
\* into state fields (error_message set, next = END); no failure of a
\* collaborator is raised out of a node.
C22_EveryNodeCatches ==
    /\ ~RaisedPastNode
    /\ \A op \in {"ContentClassifier.analyze", "ContentFormatter.format",
                   "NoteStore.create", "TaskExtractor.extract"} :
         CalledWith(op, "raise") => error_message # <<>> /\ next = END
    /\ ReportRaised => error_message # <<>> /\ next = END

\* C22 (amended): format_content, save_notion, extract_tasks and
\* create_tasks catch their own exceptions and turn them into state fields
\* (error_message set, next = END), create_tasks recording the failure of a
\* single task as a result line instead; precheck alone re-raises, leaving
\* error_message unset, and the exception leaves the graph to be caught by
\* process.
C22_EveryNodeButPrecheckCatches ==
    /\ \A op \in {"ContentFormatter.format", "NoteStore.create",
                   "TaskExtractor.extract"} :
         CalledWith(op, "raise") => error_message # <<>> /\ next = END
    /\ CalledWith("NoteStore.create", "null") => error_message # <<>> /\ next = END
    /\ ReportRaised => error_message # <<>> /\ next = END
    /\ CalledWith("TaskStore.create", "raise") =>
         /\ exc = <<>>
         /\ \E i \in DOMAIN results : results[i].kind = "create_failed"
    /\ RaisedPastNode <=> CalledWith("ContentClassifier.analyze", "raise")
    /\ RaisedPastNode =>
         /\ pc \in {"except", "done"}
         /\ entered = <<"precheck">>
         /\ error_message = <<>>
         /\ next = START

C22_Witness ==
    /\ pc = "done"
    /\ CalledWith("NoteStore.create", "raise")
    /\ error_message = <<"timeout">>
    /\ next = END
    /\ ~save_success

\* the error texts shown by the failure updates of the run
FailureTexts == { updates[i].description.err : i \in UpdatesWith("FAILED") }

\* C23 (as claimed): every failure text shown on the status message,
\* whichever step failed, is the innermost segment of the error message
\* alone, with no "outer: " prefix left in front of it.
C23_OnlyInnermostShown ==
    \A t \in FailureTexts : Len(t) <= 1

----------------------------------------------------------------------------
(* Claims on stalled workers *)

Stalled(w) ==
    /\ workers[w].state = "busy"
    /\ runs[workers[w].msg].pc \in {"stalled", "blocked"}
AllStalled == \A w \in Workers : Stalled(w)
Finished(m) == runs[m].pc \in {"done", "stalled", "blocked"}

\* no message waits in the queue unless the pool was stopped or every
\* worker is stalled
Drained == \A m \in Messages : ~Queued(m) \/ stopped \/ AllStalled
\* every dequeued message was processed to its end or is itself stalled
Settled == \A m \in Messages : Dequeued(m) => (Finished(m) \/ stopped)

\* C24: a capability call that never returns stalls only the worker of its
\* run: as long as stop has not been called and fewer than max_workers
\* workers are stalled, every queued message is eventually dequeued and
\* processed to its end by a remaining worker.  The submitted messages are
\* finitely many and "dequeued", "stalled" and "stopped" are stable, so
\* this is: again and again no message is left waiting and none is left
\* half processed.
C24_StallLeavesOthersRunning == []<>(Drained /\ Settled)

----------------------------------------------------------------------------
(* Claims on a Message processed again *)

NoteCalls == { i \in DOMAIN calls : calls[i].op = "NoteStore.create" }
CreateCallsFor(t) == { a \in CreateCalls : calls[a].item = t }

\* C25: there is no deduplication.  A run of a Message that was processed
\* before makes the calls a first run makes: one NoteStore.create call once
\* save_notion has formatted content to save, and one TaskStore.create call
\* for every extracted task the loop submits, whether or not an earlier run
\* created a note or tasks for the same Message.
C25_NoDeduplication ==
    (submission > 1 /\ pc = "done") =>
      /\ (Entered("save_notion") /\ format_content_result.nonempty)
           => Cardinality(NoteCalls) = 1
      /\ LoopRan =>
           \A t \in DOMAIN tasks :
             Cardinality(CreateCallsFor(t)) =
               IF Eligible(t) /\ DateOk(t) THEN 1 ELSE 0

C25_Witness ==
    /\ submission = 2
    /\ earlier.note /\ earlier.task
    /\ pc = "done"
    /\ CalledWith("NoteStore.create", "ok")
    /\ LoopRan
    /\ \E t \in DOMAIN tasks : Cardinality(CreateCallsFor(t)) = 1

\* the id the stored project list gives to a name now ("" when it has none)
StoredId(name) ==
    IF \E k \in DOMAIN dida_projects : dida_projects[k].name = name
    THEN dida_projects[CHOOSE k \in DOMAIN dida_projects :
                         dida_projects[k].name = name].id
    ELSE ""

\* C26: the ProjectMap is rebuilt from the stored project list inside every
\* execution of create_tasks.  Whatever list an earlier run of the user saw,
\* every TaskStore.create call carries the id the list stored at this run
\* gives to the task's project name, and a task naming a project that this
\* list does not have is not submitted.
C26_ProjectMapIsCurrent ==
    LoopRan =>
      /\ \A a \in CreateCalls :
           calls[a].project_id = StoredId(tasks[calls[a].item].projectId)
      /\ \A t \in DOMAIN tasks :
           (tasks[t].projectId # "" /\ StoredId(tasks[t].projectId) = "")
             => /\ CreateCallsFor(t) = {}
                /\ ResultLine("project_not_found", t)

C26_Witness ==
    /\ submission = 2
    /\ dida_projects # FirstProjects
    /\ LoopRan
    /\ \E a \in CreateCalls :
         /\ tasks[calls[a].item].projectId = "Ghost"
         /\ calls[a].project_id = "p-ghost"
    /\ \E t \in DOMAIN tasks :
         /\ tasks[t].projectId = "Shopping"
         /\ CreateCallsFor(t) = {}

----------------------------------------------------------------------------
(* Claims on the text of a status update *)

\* C27: the text sent for a status update has a bar line (a bar of
\* bar_length cells and the percentage, below the description) if and only
\* if show_progress is true and a progress is given; the text of an update
\* without a bar (final report, error text) is the description exactly.
C27_BarIffProgressShown ==
    \A i \in DOMAIN updates :
      LET u == updates[i]
          t == status_text(u)
      IN /\ (t.bar # <<>>) <=> (u.show_progress /\ u.progress # NoProgress)
         /\ t.bar # <<>> =>
              /\ Len(t.bar) = 1
              /\ t.bar[1].filled >= 0 /\ t.bar[1].empty >= 0
              /\ t.bar[1].filled + t.bar[1].empty = bar_length
              /\ t.bar[1].percent = u.progress
         /\ t.bar = <<>> => t.first = << u.description >>

C27_Witness ==
    /\ pc = "done"
    /\ \E i, j, k \in DOMAIN updates :
         /\ status_text(updates[i]).bar # <<>>
         /\ updates[j].status = "COMPLETED"
         /\ status_text(updates[j]) = [first |-> << updates[j].description >>, bar |-> <<>>]
         /\ updates[k].status = "FAILED"
         /\ status_text(updates[k]) = [first |-> << updates[k].description >>, bar |-> <<>>]

----------------------------------------------------------------------------
(* Claims on whole runs *)

\* a run of a text without URL, with a status message and the to-do service
\* configured, whose extraction gave one task that names a project of the
\* user's project list
OneProjectTask ==
    /\ pc = "done"
    /\ HasStatusMessage
    /\ dida_configured
    /\ precheck_result.contains_text /\ ~precheck_result.contains_url
    /\ CalledWith("TaskExtractor.extract", "ok")
    /\ Len(tasks) = 1
    /\ StoredId(tasks[1].projectId) # ""

ReportLinesSent == LastUpdate.description.lines

LinesOf(i) == updates[i].description.lines

\* C29: when the extractor returns an empty list, create_tasks makes no
\* TaskStore.create call and the final report carries the "no tasks
\* detected" line and no task section; when it returns k >= 1 tasks, the
\* final report carries the task section of the k tasks and no "no tasks
\* detected" line.
C29_NoTasksLine ==
    (pc = "done" /\ CalledWith("TaskExtractor.extract", "ok") /\ HasStatusMessage) =>
      IF tasks = <<>>
      THEN /\ ~Called("TaskStore.create")
           /\ LastUpdate.status = "COMPLETED"
           /\ CountKind(ReportLinesSent, {"no_tasks"}) = 1
           /\ CountKind(ReportLinesSent, {"task_header", "task_title"}) = 0
      ELSE \A i \in UpdatesWith("COMPLETED") :
             /\ CountKind(LinesOf(i), {"no_tasks"}) = 0
             /\ \E k \in DOMAIN LinesOf(i) :
                  LinesOf(i)[k] = Line("task_header", Len(tasks))
             /\ CountKind(LinesOf(i), {"task_title"}) = Len(tasks)

C29_Witness ==
    /\ pc = "done"
    /\ HasStatusMessage
    /\ CalledWith("TaskExtractor.extract", "ok")
    /\ tasks = <<>>
    /\ Entered("create_tasks")
    /\ LastUpdate.status = "COMPLETED"
    /\ \E k \in DOMAIN ReportLinesSent : ReportLinesSent[k] = Line("no_tasks", 0)

\* the second case of C29 happens as well
C29_TaskSectionSeen ==
    /\ pc = "done"
    /\ HasStatusMessage
    /\ Len(tasks) >= 2
    /\ LastUpdate.status = "COMPLETED"
    /\ CountKind(ReportLinesSent, {"task_title"}) = Len(tasks)

Failed(op) == CalledWith(op, "raise") \/ CalledWith(op, "null")
SomeCallFailed ==
    \E op \in {"ContentClassifier.analyze", "ContentFormatter.format",
                "NoteStore.create", "TaskExtractor.extract", "TaskStore.create"} :
      Failed(op)

\* C30 (as claimed): process never raises, and in every run in which a
\* capability call failed it returns an error result.
C30_FailureReturnsErrorResult ==
    /\ pc # "raised"
    /\ (pc = "done" /\ SomeCallFailed) => ProcessResult.error # NoError

\* C30 (amended): process never raises.  It returns an error result when
\* the exception left the graph (classifier failure, the routing error after
\* a note that was not saved), with the text of that exception; it returns
\* the empty results of the final state when the node caught the failure
\* itself and the run went on to create_tasks (extractor, task store).
C30_ProcessAlwaysReturns ==
    /\ pc # "raised"
    /\ pc = "except" => ENABLED ProcessExcept
    /\ pc = "done" =>
         /\ Failed("ContentClassifier.analyze")
              => ProcessResult.error \in ErrorMessages
         /\ (Called("NoteStore.create") /\ ~CalledWith("NoteStore.create", "ok"))
              => ProcessResult.error = KeyErrorText(END)
         /\ Entered("create_tasks") => ProcessResult.error = NoError

C30_Witness ==
    /\ pc = "done"
    /\ HasStatusMessage
    /\ CalledWith("ContentClassifier.analyze", "raise")
    /\ ProcessResult.error \in ErrorMessages
    /\ LastUpdate.status = "FAILED"

\* the other case of C30 happens as well
C30_NodeCaughtSeen ==
    /\ pc = "done"
    /\ CalledWith("TaskExtractor.extract", "raise")
    /\ ProcessResult.error = NoError

----------------------------------------------------------------------------
(* Claims on the text of a run *)

\* the run was started: process built its state from the Message
Started == pc \notin {"received", "media", "rejected", "start"}

\* C31: for a voice or audio message, the text_content the workflow
\* classifies, formats and saves is the text the transcription of that
\* message gave, and not the empty string.
C31_VoiceTextIsTranscript ==
    (Started /\ message.type \in {"VOICE", "AUDIO"}) =>
      /\ TextContent(message) = media_text
      /\ TextContent(message) # ""

----------------------------------------------------------------------------
(* Claims on the edges and on save_success *)

\* C32: every value a routing function returns in a run is a key of the
\* path map registered for its node: the value _route_after_url_check
\* gives after precheck, and the value _route_after_save gives after
\* save_notion.
C32_RoutesAreDeclared ==
    /\ CalledWith("ContentClassifier.analyze", "ok")
         => Resolves(PrecheckEnds, RouteAfterUrlCheck(precheck_result))
    /\ Entered("save_notion")
         => Resolves(SaveEnds, RouteAfterSave(precheck_result, save_success))

\* C33: in every state of a run, save_success is true only after a
\* NoteStore.create call that returned an entry; the extractor, the task
\* store and the final report occur only in runs with save_success true,
\* and every final report emitted has the note-saved section.
C33_SavedBeforeTasksAndReport ==
    /\ save_success => CalledWith("NoteStore.create", "ok")
    /\ (\/ Called("TaskExtractor.extract")
        \/ Called("TaskStore.create")
        \/ Reached("extract_tasks")
        \/ Reached("create_tasks")
        \/ ReportEmitted) => save_success
    /\ \A i \in UpdatesWith("COMPLETED") :
         CountKind(LinesOf(i), {"note_saved"}) = 1

C33_Witness ==
    /\ pc = "done"
    /\ save_success
    /\ CalledWith("TaskStore.create", "ok")
    /\ ReportEmitted
    /\ CountKind(ReportLinesSent, {"note_saved"}) = 1

----------------------------------------------------------------------------
\* the step of the run that follows the current one
RunStep ==
    \/ Begin
    \/ ContentPrecheck
    \/ UrlSummary
    \/ FormatContent
    \/ SaveToNotion
    \/ ExtractTasks
    \/ CreateTasks
    \/ ProcessExcept

\* C34: a status update whose edit fails or raises neither aborts nor
\* re-routes the run.  The step in which the edit fails leaves the position
\* of the run, its state, the nodes entered, the capability calls made and
\* the exception of process as they are, and after it the run still has its
\* next step to take, until it is done.
C34_FailedEditKeepsCourse ==
    /\ []((failed_edit # 0 /\ pc # "done") => ENABLED RunStep)
    /\ [][failed_edit' # failed_edit =>
             /\ pc' = pc
             /\ exc' = exc
             /\ calls' = calls
             /\ entered' = entered
             /\ next' = next
             /\ save_success' = save_success
             /\ tasks' = tasks
             /\ error_message' = error_message]_vars

\* the edit of the first progress update failed and the run went on to save
\* the note, create a task and issue its report
C34_Witness ==
    /\ failed_edit = 1
    /\ pc = "done"
    /\ exc = NoError
    /\ CalledWith("NoteStore.create", "ok")
    /\ CalledWith("TaskStore.create", "ok")
    /\ ReportEmitted

----------------------------------------------------------------------------
\* C35: when the status message could not be created at the start of the
\* run (status_message_id stays None), the run issues no status update at
\* all, neither progress nor error text nor report, and it still has its
\* next step to take until it is done.
C35_NoStatusMessageNoUpdates ==
    (pc # "start" /\ status_message_id = None) =>
      /\ updates = <<>>
      /\ pc # "done" => ENABLED RunStep

\* without a status message the whole workflow ran: the note was saved, the
\* tasks were extracted and one was created, and nothing was issued
C35_Witness ==
    /\ pc = "done"
    /\ status_message_id = None
    /\ exc = NoError
    /\ Entered("create_tasks")
    /\ CalledWith("NoteStore.create", "ok")
    /\ CalledWith("TaskExtractor.extract", "ok")
    /\ CalledWith("TaskStore.create", "ok")
    /\ updates = <<>>

\* without a status message a run that failed issued no error text either
C35_FailedSilently ==
    /\ pc = "done"
    /\ status_message_id = None
    /\ exc # NoError
    /\ updates = <<>>

----------------------------------------------------------------------------
\* the processing of message m has ended: a worker took it from the queue
\* and is no longer busy with it
Ended(m) ==
    /\ \E i \in DOMAIN dequeued : dequeued[i] = m
    /\ workers[runs[m].worker] # Worker("busy", m)

\* C36: task_done is called exactly once for every item a worker dequeued,
\* when its processing ends, and never by a worker to which get has not
\* returned an item, a worker cancelled while it waits in get included; the
\* unfinished count of the queue is the number of items enqueued minus the
\* number of items whose processing ended.
C36_TaskDoneOncePerItem ==
    /\ task_done[0] = 0
    /\ \A m \in Messages : task_done[m] = (IF Ended(m) THEN 1 ELSE 0)
    /\ unfinished_tasks = submitted - Cardinality({ m \in Messages : Ended(m) })

\* while no worker has been cancelled the count is kept
C36_RunningPoolCounts ==
    ~stopped => C36_TaskDoneOncePerItem

----------------------------------------------------------------------------
\* nothing is left to do: no message waits in the queue, every submitted
\* message was dequeued and its run is at its end, and every worker waits
\* in get again
Quiescent ==
    /\ message_queue = <<>>
    /\ \A m \in 1..submitted : Dequeued(m) /\ runs[m].pc = "done"
    /\ \A w \in Workers : workers[w] = Worker("get", 0)

\* the messages were dequeued in the order of their submission
DequeuedInOrder == dequeued = [i \in 1..Len(dequeued) |-> i]

\* C37: while the pool is running and every call returns, every submitted
\* message is eventually dequeued, its run reaches its end and its worker
\* waits on the queue again; messages are dequeued in the order of their
\* submission.  The messages are finitely many and "done" is stable, so the
\* first part is: again and again nothing is left to do.
C37_EveryMessageProcessedInOrder ==
    /\ []DequeuedInOrder
    /\ []<>Quiescent

\* all the messages were processed, two of them by a worker that came back
\* to the queue in between, and the workers wait again
C37_Witness ==
    /\ ~stopped
    /\ submitted = MaxLiveMessages
    /\ Len(dequeued) = MaxLiveMessages
    /\ \E m \in 2..submitted : runs[m].worker = runs[m - 1].worker
    /\ Quiescent

====
